---- MODULE Spec2Model ----
(***************************************************************************)
(* F1 constructor performance tracker: the batch pipeline                  *)
(*   bronze (raw) -> month tagging -> silver (cleaned) -> gold (monthly).  *)
(* The stages are separate programs that communicate through Parquet       *)
(* files, so the state is the content of those files plus what the last    *)
(* run of each stage observed.                                             *)
(*                                                                         *)
(* A data frame is [cols, date_dtype, rows]: rows is a sequence of         *)
(* functions from column names to values.  A frame held in memory carries  *)
(* the pandas index as the pseudo-column "idx"; a file does not            *)
(* (to_parquet(index=False)).  A nullable value is <<>> (NaN / NULL /      *)
(* None) or <<v>>.  A timestamp is its wall-clock value [ym, day]; whether *)
(* the race_date column is text, tz-aware or naive is the column's dtype.  *)
(* The points column is numeric (float64 with NaN), as Parquet columns are *)
(* typed.                                                                  *)
(***************************************************************************)
EXTENDS Integers, Sequences, FiniteSets, TLC

VARIABLES
    bronze,    \* data/bronze/race_constructor_points.parquet
    simple,    \* data/bronze/race_constructor_points_with_month.parquet, or Absent
    parts,     \* data/bronze/by_month: partition label -> rows of its part.parquet
    silver,    \* data/silver/constructor_race_points.parquet, or Absent
    gold,      \* data/gold/constructor_monthly.parquet (rows), or Absent
    tagged,    \* add_month.main was run since the raw layer last changed
    call,      \* the add_month_col call on the current raw layer: argument before/after, result
    partRun,   \* the input of the last completed save_partitioned
    cleanRun   \* what clean.main read, kept and reported, if it was the last stage to run

vars == <<bronze, simple, parts, silver, gold, tagged, call, partRun, cleanRun>>

----------------------------------------------------------------------------
(* Bounds and value universes *)

MaxRows == 3        \* rows of a frame fed to the Cleaner
MaxRawRows == 2     \* rows of a raw layer in the pipeline runs
MaxAggRows == 3     \* rows of a cleaned layer fed to the Aggregator

\* An optional file or log entry: Absent, or Some(x) read back with Get.
Absent == <<>>
Some(x) == <<x>>
Get(o) == o[1]
NA == <<>>
\* The by_month directory with no partition in it.
NoParts == [l \in {} |-> <<>>]
IsNA(v) == v = <<>>
Num(v) == <<v>>

RawCols == {"race_id", "race_date", "constructor_id", "constructor_name", "points"}
SilverCols == RawCols \cup {"m"}

\* The calendar of the modelled season: race 1 and 2 in March, 3 in April, 4 in May.
RaceDateOf(r) ==
    CASE r = 1 -> [ym |-> 3, day |-> 7]
      [] r = 2 -> [ym |-> 3, day |-> 21]
      [] r = 3 -> [ym |-> 4, day |-> 18]
      [] OTHER -> [ym |-> 5, day |-> 9]

RawRow(r, c, n, p) ==
    [col \in RawCols |->
        CASE col = "race_id" -> r
          [] col = "race_date" -> RaceDateOf(r)
          [] col = "constructor_id" -> c
          [] col = "constructor_name" -> n
          [] OTHER -> p]

RECURSIVE SeqsUpTo(_, _)
SeqsUpTo(S, n) ==
    IF n = 0 THEN {<<>>}
    ELSE LET shorter == SeqsUpTo(S, n - 1)
         IN shorter \cup {Append(s, x) : s \in {t \in shorter : Len(t) = n - 1}, x \in S}

Range(s) == {s[i] : i \in DOMAIN s}

RECURSIVE SumSeq(_)
SumSeq(s) == IF s = <<>> THEN 0 ELSE s[1] + SumSeq(Tail(s))

\* The subsequence of s whose positions satisfy keep (order preserved).
RECURSIVE Filter(_, _, _)
Filter(s, keep, i) ==
    IF i > Len(s) THEN <<>>
    ELSE IF keep[i] THEN <<s[i]>> \o Filter(s, keep, i + 1)
    ELSE Filter(s, keep, i + 1)

----------------------------------------------------------------------------
(* Parquet I/O *)

\* pd.read_parquet: a fresh RangeIndex.
ReadParquet(file) ==
    [file EXCEPT !.rows = [i \in DOMAIN file.rows |-> file.rows[i] @@ ("idx" :> i)]]

\* df.to_parquet(path, index=False): the columns, without the index.
ToParquet(df) ==
    [df EXCEPT !.rows = [i \in DOMAIN df.rows |-> [c \in df.cols |-> df.rows[i][c]]]]

Key(row) == <<row["race_id"], row["constructor_id"]>>

\* df.duplicated(["race_id", "constructor_id"]).sum()
DuplicatedCount(rows) ==
    Cardinality({i \in DOMAIN rows : \E j \in 1..(i - 1) : Key(rows[j]) = Key(rows[i])})

\* Series.dt.to_period("M").dt.to_timestamp(): the first day of the month.
MonthStart(ts) == [ym |-> ts.ym, day |-> 1]

----------------------------------------------------------------------------
(* clean.py *)

\* _expect_columns
ExpectColumns(df, cols) == cols \subseteq df.cols

\* _ensure_datetime on df["race_date"]: text is parsed, a timezone is dropped
\* keeping the wall-clock value; the column ends datetime64[ns].
EnsureDatetime(df) == [df EXCEPT !.date_dtype = "naive"]

\* _ensure_month: normalises an existing m, else derives it from race_date.
EnsureMonth(df) ==
    IF "m" \in df.cols THEN df
    ELSE [df EXCEPT !.cols = @ \cup {"m"},
                    !.rows = [i \in DOMAIN df.rows |->
                                 df.rows[i] @@ ("m" :> MonthStart(df.rows[i]["race_date"]))]]

\* The asserts of _ensure_month.
MonthOk(df) == \A i \in DOMAIN df.rows : df.rows[i]["m"].day = 1

\* Row order of sort_values(["race_id", "constructor_id", "points"],
\* ascending=[True, True, False]) with na_position="last".
\* The points key sorted ascending: the lowest value would come first.
PointsFirstAscending(p, q) == ~IsNA(p) /\ (IsNA(q) \/ p[1] < q[1])

PointsFirst(p, q) == ~IsNA(p) /\ (IsNA(q) \/ p[1] > q[1])
SortsBefore(a, b) ==
    \/ a["race_id"] < b["race_id"]
    \/ a["race_id"] = b["race_id"] /\ a["constructor_id"] < b["constructor_id"]
    \/ Key(a) = Key(b) /\ PointsFirst(a["points"], b["points"])

\* A multi-column sort_values is a lexsort of the factorised keys: stable.
RECURSIVE InsertSorted(_, _)
InsertSorted(sorted, x) ==
    IF sorted = <<>> THEN <<x>>
    ELSE IF SortsBefore(x, sorted[1]) THEN <<x>> \o sorted
    ELSE <<sorted[1]>> \o InsertSorted(Tail(sorted), x)

RECURSIVE SortValues(_)
SortValues(rows) ==
    IF rows = <<>> THEN <<>>
    ELSE InsertSorted(SortValues(SubSeq(rows, 1, Len(rows) - 1)), rows[Len(rows)])

\* drop_duplicates(subset=["race_id", "constructor_id"], keep="first")
DropDuplicates(rows) ==
    Filter(rows, [i \in DOMAIN rows |-> \A j \in 1..(i - 1) : Key(rows[j]) # Key(rows[i])], 1)

\* The rows left, reported as the rows dropped.
DroppedIsRemaining(before, after) == after

\* dropped = before - len(df)
Dropped(before, after) == before - after

\* _dedupe_by_pair: the frame and the number of rows dropped.
DedupeByPair(df) ==
    LET kept == DropDuplicates(SortValues(df.rows))
    IN [df |-> [df EXCEPT !.rows = kept],
        dropped |-> Dropped(Len(df.rows), Len(kept)),
        ok |-> DuplicatedCount(kept) = 0]

\* pd.to_numeric(errors="coerce") on a numeric column: the values as they are.
ToNumeric(p) == p

NegMask(p) == ~IsNA(p) /\ p[1] < 0

\* The docstring's "clamp": a negative value set to 0.
NegClampedToZero(p) == Num(0)

\* df.loc[neg_mask, "points"] = pd.NA
NegReplacement(p) == NA

\* _clean_values: the frame and the issues dict.
CleanValues(df) ==
    LET num == [i \in DOMAIN df.rows |-> [df.rows[i] EXCEPT !["points"] = ToNumeric(@)]]
        neg == Cardinality({i \in DOMAIN num : NegMask(num[i]["points"])})
        out == [i \in DOMAIN num |->
                   IF neg > 0 /\ NegMask(num[i]["points"])
                   THEN [num[i] EXCEPT !["points"] = NegReplacement(@)]
                   ELSE num[i]]
    IN [df |-> [df EXCEPT !.rows = out],
        issues |-> [neg_points_found |-> neg,
                    missing_points |-> Cardinality({i \in DOMAIN out : IsNA(out[i]["points"])}),
                    missing_constructor_name |->
                        Cardinality({i \in DOMAIN out : IsNA(out[i]["constructor_name"])})]]

\* clean.main from the frame it read to the frame it writes; ok is FALSE when an
\* assertion stops the run before the write.
CleanerRun(file) ==
    LET df0 == ReadParquet(file)
        df1 == EnsureMonth(EnsureDatetime(df0))
        dd == DedupeByPair(df1)
        cv == CleanValues(dd.df)
        proj == [cv.df EXCEPT !.cols = SilverCols]
    IN [ok |-> ExpectColumns(df0, RawCols) /\ MonthOk(df1) /\ dd.ok,
        deduped |-> dd.df.rows,
        dropped |-> dd.dropped,
        issues |-> cv.issues,
        out |-> ToParquet(proj)]

\* clean.main: reads the month-tagged file when it exists, else the raw file.
CleanerMain ==
    /\ LET src == IF simple # Absent THEN "with_month" ELSE "no_month"
           file == IF simple # Absent THEN Get(simple) ELSE bronze
           run == CleanerRun(file)
       IN /\ run.ok
          /\ silver' = Some(run.out)
          /\ cleanRun' = Some([src |-> src, read |-> file, raw |-> bronze, tagged |-> tagged,
                          deduped |-> run.deduped, dropped |-> run.dropped,
                          issues |-> run.issues])
    /\ UNCHANGED <<bronze, simple, parts, gold, tagged, call, partRun>>

\* The Cleaner run again with its own output as the input file.
CleanerOnOutput ==
    /\ silver # Absent
    /\ LET run == CleanerRun(Get(silver))
       IN /\ run.ok
          /\ silver' = Some(run.out)
          /\ cleanRun' = Some([src |-> "silver", read |-> Get(silver), raw |-> bronze, tagged |-> tagged,
                          deduped |-> run.deduped, dropped |-> run.dropped,
                          issues |-> run.issues])
    /\ UNCHANGED <<bronze, simple, parts, gold, tagged, call, partRun>>

\* Inputs of the Cleaner: raw layers of up to MaxRows rows, duplicates included.
CleanPoints == {NA, Num(-1), Num(0), Num(2)}
CleanKeys == {<<1, 1>>, <<1, 2>>, <<3, 1>>}
CleanRows == {RawRow(k[1], k[2], Num("A"), p) : k \in CleanKeys, p \in CleanPoints}
CleanInputs ==
    {[cols |-> RawCols, date_dtype |-> d, rows |-> s] :
        d \in {"text", "naive"}, s \in SeqsUpTo(CleanRows, MaxRows)}

InitClean ==
    /\ bronze \in CleanInputs
    /\ simple = Absent
    /\ parts = NoParts
    /\ silver = Absent
    /\ gold = Absent
    /\ tagged = FALSE
    /\ call = Absent
    /\ partRun = Absent
    /\ cleanRun = Absent

NextClean == CleanerMain \/ CleanerOnOutput

SpecClean == InitClean /\ [][NextClean]_vars

----------------------------------------------------------------------------
(* Claims about the Cleaner, checked under SpecClean *)

Run == Get(cleanRun)
ReadRows == ReadParquet(Run.read).rows
SameKey(a, b) == Key(a) = Key(b)
Beats(a, b) == ~IsNA(a["points"]) /\ (IsNA(b["points"]) \/ a["points"][1] > b["points"][1])
Ties(a, b) == a["points"] = b["points"]
RawPart(row) == [c \in RawCols \cup {"idx"} |-> row[c]]

NegCount(rows) == Cardinality({i \in DOMAIN rows : NegMask(rows[i]["points"])})

C7_CleanerIdempotent ==
    (cleanRun # Absent /\ Run.src = "silver") =>
        /\ Run.dropped = 0
        /\ Get(silver) = Run.read

\* A second run whose first run dropped duplicates and blanked a negative value.
C7_Witness ==
    /\ cleanRun # Absent
    /\ Run.src = "silver"
    /\ Len(Run.read.rows) >= 2
    /\ Len(bronze.rows) > Len(Run.read.rows)
    /\ \E i \in DOMAIN bronze.rows : NegMask(bronze.rows[i]["points"])
    /\ \E i \in DOMAIN Run.read.rows : IsNA(Run.read.rows[i]["points"])

----------------------------------------------------------------------------
(* sql.py *)

GroupKey(row) == <<row["constructor_id"], row["constructor_name"], row["m"]>>

\* SUM(points): NULL values are skipped; a group with no non-NULL value sums to NULL.
SqlSum(values) ==
    LET present == Filter(values, [i \in DOMAIN values |-> ~IsNA(values[i])], 1)
    IN IF present = <<>> THEN NA
       ELSE Num(SumSeq([i \in DOMAIN present |-> present[i][1]]))

\* WITH monthly AS (SELECT constructor_id, constructor_name, m, SUM(points) AS points_m
\*                  FROM silver GROUP BY 1,2,3)
Monthly(rows) ==
    {[constructor_id |-> g[1], constructor_name |-> g[2], m |-> g[3],
      points_m |-> SqlSum(LET members == Filter(rows, [i \in DOMAIN rows |-> GroupKey(rows[i]) = g], 1)
                          IN [i \in DOMAIN members |-> members[i]["points"]])] :
        g \in {GroupKey(rows[i]) : i \in DOMAIN rows}}

MonthLess(a, b) == a.ym < b.ym \/ (a.ym = b.ym /\ a.day < b.day)

\* The orders a sort of the set S by (constructor_id, m) can produce: rows equal on
\* both keys come in any order.
OrderedByKey(S) ==
    {s \in [1..Cardinality(S) -> S] :
        /\ \A i, j \in DOMAIN s : i # j => s[i] # s[j]
        /\ \A i, j \in DOMAIN s : i < j =>
              \/ s[i].constructor_id < s[j].constructor_id
              \/ /\ s[i].constructor_id = s[j].constructor_id
                 /\ ~MonthLess(s[j].m, s[i].m)}

\* LAG(points_m) OVER (PARTITION BY constructor_id ORDER BY m) for row s[i] of the
\* window order s: the points_m of the row before it in its partition, else NULL.
Lag(s, i) ==
    IF i > 1 /\ s[i - 1].constructor_id = s[i].constructor_id THEN s[i - 1].points_m ELSE NA

\* CASE WHEN prev_points_m IS NULL OR prev_points_m = 0 THEN NULL
\*      ELSE (points_m - prev_points_m) * 1.0 / prev_points_m END
\* The quotient is kept as the fraction num/den; arithmetic on NULL is NULL.
MomGrowth(points_m, prev) ==
    IF IsNA(prev) \/ prev = Num(0) THEN NA
    ELSE IF IsNA(points_m) THEN NA
    ELSE Num([num |-> points_m[1] - prev[1], den |-> prev[1]])

\* The final SELECT over with_prev for window order win, arranged in output order out.
GoldRows(win, out) ==
    [k \in DOMAIN out |->
        LET i == CHOOSE i \in DOMAIN win : win[i] = out[k]
        IN [constructor_id |-> out[k].constructor_id,
            constructor_name |-> out[k].constructor_name,
            m |-> out[k].m,
            points_m |-> out[k].points_m,
            mom_growth |-> MomGrowth(out[k].points_m, Lag(win, i))]]

\* sql.main: reads the silver file, writes the gold file.
SqlMain ==
    /\ silver # Absent
    /\ LET monthly == Monthly(Get(silver).rows)
       IN \E win \in OrderedByKey(monthly) : \E out \in OrderedByKey(monthly) :
             gold' = Some(GoldRows(win, out))
    /\ UNCHANGED <<bronze, simple, parts, silver, tagged, call, partRun, cleanRun>>

\* Cleaned layers of up to MaxAggRows rows: what clean.main writes (unique keys in
\* key order, points missing or non-negative).
AggPoints == {NA, Num(0), Num(1), Num(2)}
AggNames == {NA, Num("A")}
AggRows ==
    {RawRow(r, c, n, p) @@ ("m" :> MonthStart(RaceDateOf(r))) :
        r \in 1..4, c \in 1..2, n \in AggNames, p \in AggPoints}
RECURSIVE KeyOrderedSeqs(_, _)
KeyOrderedSeqs(S, n) ==
    IF n = 0 THEN {<<>>}
    ELSE LET shorter == KeyOrderedSeqs(S, n - 1)
         IN shorter \cup
            {Append(s, x) : <<s, x>> \in
                {<<t, y>> \in {u \in shorter : Len(u) = n - 1} \X S :
                    t = <<>> \/ (SortsBefore(t[Len(t)], y) /\ Key(t[Len(t)]) # Key(y))}}
AggInputs ==
    {[cols |-> SilverCols, date_dtype |-> "naive", rows |-> s] :
        s \in KeyOrderedSeqs(AggRows, MaxAggRows)}

InitAgg ==
    /\ bronze = [cols |-> RawCols, date_dtype |-> "naive", rows |-> <<>>]
    /\ simple = Absent
    /\ parts = NoParts
    /\ silver \in {Some(f) : f \in AggInputs}
    /\ gold = Absent
    /\ tagged = FALSE
    /\ call = Absent
    /\ partRun = Absent
    /\ cleanRun = Absent

NextAgg == SqlMain

SpecAgg == InitAgg /\ [][NextAgg]_vars

----------------------------------------------------------------------------
(* Claims about the Aggregator, checked under SpecAgg *)

Gold == Get(gold)
Cleaned == Get(silver).rows
AggKey(row) == <<row.constructor_id, row.m>>
CleanedKeys == {<<Cleaned[i]["constructor_id"], Cleaned[i]["m"]>> : i \in DOMAIN Cleaned}

\* C1: the Aggregator's output has exactly one row per distinct (constructor_id, m)
\* pair of the cleaned input, also when names differ within a pair.
C1_OneRowPerConstructorMonth ==
    gold # Absent =>
        /\ Len(Gold) = Cardinality(CleanedKeys)
        /\ \A i, j \in DOMAIN Gold : i # j => AggKey(Gold[i]) # AggKey(Gold[j])

\* The points of the cleaned records of a key, missing counted as 0.
KeyTotal(k) ==
    SumSeq([i \in DOMAIN Cleaned |->
               IF <<Cleaned[i]["constructor_id"], Cleaned[i]["m"]>> = k /\ ~IsNA(Cleaned[i]["points"])
               THEN Cleaned[i]["points"][1] ELSE 0])

\* C2: for every (constructor_id, m) key, points_m is the sum of the non-missing
\* points of the key's cleaned records: 0, not null, when all are missing.
C2_PointsTotalIsSum ==
    gold # Absent =>
        \A k \in CleanedKeys :
            /\ \E i \in DOMAIN Gold : AggKey(Gold[i]) = k
            /\ \A i \in DOMAIN Gold : AggKey(Gold[i]) = k => Gold[i].points_m = Num(KeyTotal(k))

\* The aggregate rows of the same constructor for earlier months, and among them
\* those of the greatest earlier month.
Earlier(g) == {i \in DOMAIN Gold : Gold[i].constructor_id = g.constructor_id /\ MonthLess(Gold[i].m, g.m)}
Preceding(g) == {i \in Earlier(g) : \A j \in Earlier(g) : ~MonthLess(Gold[i].m, Gold[j].m)}

\* A total of 0; the null total of an all-missing group is read as the 0 of C2.
TotalIsZero(p) == IsNA(p) \/ p = Num(0)

\* C3: mom_growth is null exactly when the constructor has no aggregate row for an
\* earlier month or the total of the immediately preceding row is 0; otherwise it
\* is a number, whatever the row's own points are.
C3_GrowthNullIff ==
    gold # Absent =>
        \A i \in DOMAIN Gold :
            IsNA(Gold[i].mom_growth) <=>
                \/ Earlier(Gold[i]) = {}
                \/ \E j \in Preceding(Gold[i]) : TotalIsZero(Gold[j].points_m)

\* C4: with a predecessor of nonzero total, mom_growth = (points_m - prev) / prev,
\* prev being the total of the same constructor's greatest earlier month present.
C4_GrowthAgainstPrecedingMonth ==
    gold # Absent =>
        \A i \in DOMAIN Gold : \A j \in Preceding(Gold[i]) :
            ~TotalIsZero(Gold[j].points_m) =>
                /\ ~IsNA(Gold[i].mom_growth)
                /\ ~IsNA(Gold[i].points_m)
                /\ Gold[i].mom_growth[1].num * Gold[j].points_m[1]
                      = (Gold[i].points_m[1] - Gold[j].points_m[1]) * Gold[i].mom_growth[1].den

----------------------------------------------------------------------------
(* add_month.py *)

\* load_bronze: the raw file as a frame; the assert on its columns.
LoadBronze(file) == ReadParquet(file)
LoadBronzeOk(df) == RawCols \subseteq df.cols

\* DataFrame.copy(): a new object with the same content.
Copy(df) == df

\* add_month_col: the frame object it was given, as it is when the function
\* returns.  race_date is converted in place (text parsed, timezone dropped), the
\* column m is assigned on the same object, and that object is returned.
AddMonthCol(df) ==
    [df EXCEPT !.cols = @ \cup {"m"},
               !.date_dtype = "naive",
               !.rows = [i \in DOMAIN df.rows |->
                            [c \in DOMAIN df.rows[i] \cup {"m"} |->
                                IF c = "m" THEN MonthStart(df.rows[i]["race_date"])
                                ELSE df.rows[i][c]]]]

\* assert_invariants
AssertInvariants(df_before, df_after) ==
    /\ Len(df_after.rows) = Len(df_before.rows)
    /\ DuplicatedCount(df_after.rows) = 0
    /\ \A i \in DOMAIN df_after.rows : df_after.rows[i]["m"].day = 1

\* save_simple: the file df.to_parquet(OUT_SIMPLE, index=False) leaves.
SaveSimple(df) == ToParquet(df)

\* month_ts.strftime("%Y-%m-01") under "m=": the month of the timestamp and a
\* literal day 01.
MonthLabel(ts) == <<ts.ym, 1>>

\* The asserts that open save_partitioned.
PartitionPre(df) ==
    /\ "m" \in df.cols
    /\ \A i \in DOMAIN df.rows : df.rows[i]["m"].day = 1

\* part_df of one month: its rows in the order sort_values("m") left them.  A sort
\* on a single column is numpy's quicksort, which is not stable: any order of the
\* month's rows can come out.
MonthRows(df, m) == {i \in DOMAIN df.rows : df.rows[i]["m"] = m}
PartOrders(df, m) ==
    {[k \in DOMAIN o |-> df.rows[o[k]]] :
        o \in {q \in [1..Cardinality(MonthRows(df, m)) -> MonthRows(df, m)] :
                  \A a, b \in DOMAIN q : a # b => q[a] # q[b]}}

\* part.parquet appended to instead of replaced.
AppendPart(existing, part) == existing \o part

\* part_df.to_parquet(out_path, index=False) on a path that may exist: the file is
\* replaced.
WritePart(existing, part) == part

\* save_partitioned: the by_month trees it can leave, each with the row total it
\* counted.  chosen gives the row order of each month's part.
SavePartitioned(df, old) ==
    LET months == {df.rows[i]["m"] : i \in DOMAIN df.rows}
        labels == {MonthLabel(m) : m \in months}
        MonthOf(l) == CHOOSE m \in months : MonthLabel(m) = l
    IN {[tree |-> [l \in DOMAIN old \cup labels |->
                      IF l \in labels
                      THEN WritePart(IF l \in DOMAIN old THEN old[l] ELSE <<>>,
                                     ToParquet([df EXCEPT !.rows = chosen[MonthOf(l)]]).rows)
                      ELSE old[l]],
         written |-> labels,
         total_rows |-> SumSeq(LET ls == CHOOSE q \in [1..Cardinality(months) -> months] :
                                            \A a, b \in DOMAIN q : a # b => q[a] # q[b]
                               IN [k \in DOMAIN ls |-> Len(chosen[ls[k]])])] :
        chosen \in {c \in [months -> UNION {PartOrders(df, m) : m \in months}] :
                       \A m \in months : c[m] \in PartOrders(df, m)}}

\* add_month.main(option): load, tag a copy, check, save in the chosen layout.  A
\* failed assert ends the run with the files as they were.
AddMonthMain(option) ==
    /\ LET before == LoadBronze(bronze)
           arg == Copy(before)
           after == AddMonthCol(arg)
       IN /\ LoadBronzeOk(before)
          /\ call' = Some([arg_pre |-> arg, arg_post |-> after, ret |-> after])
          /\ tagged' = TRUE
          /\ IF ~AssertInvariants(before, after)
             THEN UNCHANGED <<simple, parts, partRun>>
             ELSE IF option = "A"
             THEN /\ simple' = Some(SaveSimple(after))
                  /\ UNCHANGED <<parts, partRun>>
             ELSE /\ PartitionPre(after)
                  /\ \E res \in SavePartitioned(after, parts) :
                        /\ res.total_rows = Len(after.rows)
                        /\ parts' = res.tree
                        /\ partRun' = Some([input |-> ToParquet(after),
                                            written |-> res.written,
                                            replaced |-> {l \in res.written \cap DOMAIN parts :
                                                             parts[l] # res.tree[l]}])
                  /\ UNCHANGED simple
    /\ cleanRun' = Absent
    /\ UNCHANGED <<bronze, silver, gold>>

\* The script run as a program (__main__): it loads the raw layer and tags a copy;
\* main is not called and nothing is saved.
AddMonthScript ==
    /\ LET bronzeDf == LoadBronze(bronze)
           arg == Copy(bronzeDf)
           after == AddMonthCol(arg)
       IN /\ LoadBronzeOk(bronzeDf)
          /\ call' = Some([arg_pre |-> arg, arg_post |-> after, ret |-> after])
    /\ cleanRun' = Absent
    /\ UNCHANGED <<bronze, simple, parts, silver, gold, tagged, partRun>>

\* A new raw layer is delivered (the ingestion that writes INP is outside this
\* repository).
WriteRaw(file) ==
    /\ file # bronze
    /\ bronze' = file
    /\ tagged' = FALSE
    /\ call' = Absent
    /\ cleanRun' = Absent
    /\ UNCHANGED <<simple, parts, silver, gold, partRun>>

\* Raw layers of up to MaxRawRows rows, duplicate keys included.
PipeRows ==
    {RawRow(1, 1, Num("A"), Num(1)), RawRow(1, 2, Num("B"), Num(2)),
     RawRow(3, 1, Num("A"), Num(1))}
RawInputs ==
    {[cols |-> RawCols, date_dtype |-> d, rows |-> s] :
        d \in {"text"}, s \in SeqsUpTo(PipeRows, MaxRawRows)}

Init ==
    /\ bronze \in RawInputs
    /\ simple = Absent
    /\ parts = NoParts
    /\ silver = Absent
    /\ gold = Absent
    /\ tagged = FALSE
    /\ call = Absent
    /\ partRun = Absent
    /\ cleanRun = Absent

Next ==
    \/ \E file \in RawInputs : WriteRaw(file)
    \/ \E option \in {"A", "B"} : AddMonthMain(option)
    \/ AddMonthScript
    \/ CleanerMain

Spec == Init /\ [][Next]_vars

\* The partitioned layout alone: raw layers delivered and tagged in mode B.
NextPart ==
    \/ \E file \in RawInputs : WriteRaw(file)
    \/ AddMonthMain("B")

SpecPart == Init /\ [][NextPart]_vars

----------------------------------------------------------------------------
(* Claims about month tagging and the run order, checked under Spec; C9 under
   SpecPart *)

Call == Get(call)
PartRun == Get(partRun)

\* C8: add_month_col leaves the record set passed to it unchanged: same columns,
\* same race_date values; m exists only in the returned record set.
C8_ArgumentUnchanged ==
    call # Absent =>
        /\ Call.arg_post = Call.arg_pre
        /\ "m" \in Call.ret.cols
        /\ "m" \notin Call.arg_post.cols

\* C9: after a completed Partition Writer run, every month of its input has a unit
\* holding exactly the input's rows of that month (earlier content replaced), so
\* the units written by the run hold as many rows as the input.
C9_PartitionsHoldLastInput ==
    partRun # Absent =>
        LET input == PartRun.input.rows
            unitRows == UNION {{<<l, k>> : k \in DOMAIN parts[l]} : l \in PartRun.written}
        IN /\ \A i \in DOMAIN input :
                LET l == MonthLabel(input[i]["m"])
                IN /\ l \in PartRun.written
                   /\ l \in DOMAIN parts
                   /\ Range(parts[l]) = {input[j] : j \in MonthRows(PartRun.input, input[i]["m"])}
                   /\ Len(parts[l]) = Cardinality(MonthRows(PartRun.input, input[i]["m"]))
           /\ Cardinality(unitRows) = Len(input)

\* A run that replaced the content an earlier run left for a month, wrote a unit
\* of two rows, and left another month's unit of an earlier run in place.
C9_Witness ==
    /\ partRun # Absent
    /\ PartRun.replaced # {}
    /\ \E l \in PartRun.written : Len(parts[l]) >= 2
    /\ DOMAIN parts # PartRun.written

\* The records of a frame in the raw layer's columns.
RawRecords(file) == [i \in DOMAIN file.rows |-> [c \in RawCols |-> file.rows[i][c]]]

\* C10: a Cleaner run that follows a month-tagging run on the current raw layer
\* (mode A or B, completed or aborted) reads the records of that raw layer.
C10_CleanerReadsCurrentRaw ==
    (cleanRun # Absent /\ Run.tagged) => RawRecords(Run.read) = RawRecords(Run.raw)

====
